---------------------------- MODULE Spec2Model ----------------------------
(***************************************************************************)
(* Journey ingestion of annual_ticket_calculation_from_google_data.py:     *)
(* main() drives choose_file, sql_define, load_json and fill_sql over a    *)
(* SQLite store (tables Journeys, ActivityTypes, Locations), commits, and  *)
(* reports.  The store is modelled twice: `disk` is what the database file *)
(* holds (the last commit), `db` is what the open connection sees (the     *)
(* last commit plus the statements of the pending transaction).  Closing   *)
(* the connection without a commit drops the pending transaction.          *)
(*                                                                         *)
(* Probabilities are integers in thousandths of a percent (30000 = 30.0%). *)
(* Instants are small integers (seconds resolution after get_time).        *)
(***************************************************************************)
EXTENDS Integers, Sequences, FiniteSets, TLC

----------------------------------------------------------------------------
(* Bounds of the model *)

MaxRuns == 2        \* program runs over the same SQLite file
MaxFiles == 2       \* JSON files selected in one run
MaxSegs == 1        \* items per JSON file
MaxGuesses == 3     \* activities listed in one segment
MaxInstant == 2     \* start instants 1..MaxInstant
MaxRows == 3        \* journeys in a store that is analysed
MaxDepth == 4       \* mappings and sequences nested in a segment that is redacted

----------------------------------------------------------------------------
(* User-definable variables and fixed values of the program *)

threshold_P == 30000

\* validity time (in minutes) of one ticket within Vienna
ticket_time == 40

public_transit_modes == {"IN_BUS", "IN_SUBWAY", "IN_TRAIN", "IN_TRAM"}

no_place == "Unidentified"

NULL == -1          \* SQL NULL / Python None in a column or an id

----------------------------------------------------------------------------
(* Inputs *)

\* instants at which a segment starts; a segment ends one instant later or at
\* the last instant of the period, so that two segments can end together
Instants == 1..MaxInstant

LastInstant == MaxInstant + 1

\* A timestamp of the JSON file: Google's format (contains 'T'), or a string
\* that has no 'T' and is not 19 characters long.
GoogleStamps == [fmt : {"google"}, t : 1..LastInstant]

OtherStamp == [fmt |-> "other", t |-> 0]

Stamps == GoogleStamps \cup {OtherStamp}

ActivityNames == {"WALKING", "IN_BUS", "IN_TRAM"}

\* below the threshold (yet rounding to it), exactly the threshold, above it
Probabilities == {29996, 30000, 45678}

\* activities of a segment: at most maxlen guesses over the given types and
\* probabilities, probabilities in descending order, one entry per type
GuessListsOver(names, probs, maxlen) ==
    UNION { { g \in [1..n -> [activityType : names, probability : probs]] :
                \A i \in 1..n, j \in 1..n :
                    i < j => /\ g[i].probability >= g[j].probability
                             /\ g[i].activityType # g[j].activityType }
            : n \in 0..maxlen }

NoItem == [kind |-> "none", start |-> OtherStamp, end |-> OtherStamp, activities |-> << >>]

PlaceVisit == [kind |-> "placeVisit", start |-> OtherStamp, end |-> OtherStamp,
               activities |-> << >>]

\* activity segments: a start in starts, an end after it, a guess list in lists
SegmentsOver(starts, ends, lists) ==
    { s \in [kind : {"activitySegment"}, start : starts, end : ends, activities : lists] :
        IF s.start.fmt = "google"
        THEN /\ s.start.t \in Instants
             /\ s.end.t \in {s.start.t + 1, LastInstant}
        ELSE s.end.t = LastInstant }

\* The inputs of a behaviour are drawn from one of five families.
\*   "store":    every start/end instant and a malformed start timestamp, place
\*               visits, and segments whose only guess is IN_BUS;
\*   "classify": one start/end instant and every ranked guess list;
\*   "replay":   as "store" with well-formed timestamps, segments of one
\*               instant and the geodata service always answering; the items
\*               of a file are remembered and the file can be selected once
\*               more;
\*   "places":   one bus ride and a place visit, and every kind of answer of
\*               the geodata service;
\*   "upserts":  a bus ride at one instant and a bus ride or a walk at another,
\*               at places with one of two names.
Scenarios == {"store", "classify", "replay", "places", "upserts"}

StoreItems ==
    SegmentsOver(Stamps, GoogleStamps, GuessListsOver({"IN_BUS"}, {29996, 30000}, 1))
    \cup {PlaceVisit}

ClassifyItems ==
    SegmentsOver({[fmt |-> "google", t |-> 1]}, {[fmt |-> "google", t |-> 2]},
                 GuessListsOver(ActivityNames, Probabilities, MaxGuesses))

ReplayItems ==
    { s \in SegmentsOver(GoogleStamps, GoogleStamps,
                         GuessListsOver({"IN_BUS"}, {29996, 30000}, 1)) :
        s.end.t = s.start.t + 1 }
    \cup {PlaceVisit}

\* one bus ride, and a place visit
PlacesItems ==
    SegmentsOver({[fmt |-> "google", t |-> 1]}, {[fmt |-> "google", t |-> 2]},
                 { << [activityType |-> "IN_BUS", probability |-> threshold_P] >> })
    \cup {PlaceVisit}

\* a bus ride at the first instant; a bus ride or a walk at the second
UpsertItems ==
    { s \in [kind : {"activitySegment"},
             start : {[fmt |-> "google", t |-> 1], [fmt |-> "google", t |-> 2]},
             end : {[fmt |-> "google", t |-> 2], [fmt |-> "google", t |-> 3]},
             activities :
                 { << [activityType |-> "IN_BUS", probability |-> threshold_P] >>,
                   << [activityType |-> "WALKING", probability |-> threshold_P] >> }] :
        /\ s.end.t = s.start.t + 1
        /\ s.start.t = 1 => s.activities[1].activityType = "IN_BUS" }

Items(scn) ==
    CASE scn = "store" -> StoreItems
      [] scn = "classify" -> ClassifyItems
      [] scn = "replay" -> ReplayItems
      [] scn = "places" -> PlacesItems
      [] scn = "upserts" -> UpsertItems

\* the families in which the items of a file are remembered, so that the same
\* file can be loaded once more
Recorded(scn) == scn = "replay"

\* What the geodata service answers for a coordinate pair: a status, and the
\* locality and country found in the results.  "raise" is urlopen failing.
Found == [status |-> "OK", city |-> "Wien", country |-> "Austria"]

Unreachable == [status |-> "raise", city |-> no_place, country |-> no_place]

\* a status other than 'OK'
NotFound == [status |-> "ZERO_RESULTS", city |-> no_place, country |-> no_place]

\* status 'OK' with results in which no locality, no country, or neither of
\* the two is found
NoCity == [status |-> "OK", city |-> no_place, country |-> "Austria"]

NoCountry == [status |-> "OK", city |-> "Wien", country |-> no_place]

NoCityNoCountry == [status |-> "OK", city |-> no_place, country |-> no_place]

Responses(scn) ==
    CASE scn = "replay" -> {Found}
      [] scn = "places" -> {Found, NotFound, NoCity, NoCountry, NoCityNoCountry,
                            Unreachable}
      [] scn = "upserts" -> {Found, NoCityNoCountry}
      [] OTHER -> {Found, Unreachable}

----------------------------------------------------------------------------
(* Pure functions *)

Range(s) == { s[i] : i \in 1..Len(s) }

\* round(activity_p, 2): to the nearest hundredth of a percent, ties to even
Round2(p) ==
    LET q == p \div 10
        r == p % 10
    IN  IF r < 5 THEN q * 10
        ELSE IF r > 5 THEN (q + 1) * 10
        ELSE IF q % 2 = 0 THEN q * 10 ELSE (q + 1) * 10

\* get_time on a JSON timestamp: the SQL form, or "terminate"
get_time_ok(timestamp) == timestamp.fmt = "google"

get_time(timestamp) == timestamp.t

\* get_city on the service's answer
get_city(resp) ==
    IF resp.status # "OK" THEN no_place
    ELSE LET city == IF resp.city = "Wien" THEN "Vienna" ELSE resp.city
         IN  city \o ", " \o resp.country

----------------------------------------------------------------------------
(* Timestamps as text, datetime and calendar *)

\* s[i:j] of Python on a sequence of characters (0-based, end excluded, clipped)
Slice(s, i, j) ==
    LET hi == IF j < Len(s) THEN j ELSE Len(s)
    IN  IF i + 1 > hi THEN << >> ELSE SubSeq(s, i + 1, hi)

Digits == << "0", "1", "2", "3", "4", "5", "6", "7", "8", "9" >>

IsDigit(c) == \E i \in 1..10 : Digits[i] = c

DigitVal(c) == (CHOOSE i \in 1..10 : Digits[i] = c) - 1

\* int(s) of a string of digits
RECURSIVE int(_)
int(s) ==
    IF s = << >> THEN 0
    ELSE 10 * int(SubSeq(s, 1, Len(s) - 1)) + DigitVal(s[Len(s)])

\* n written with w digits, zero padded (the %02d and %04d of datetime.__str__)
RECURSIVE Pad(_, _)
Pad(n, w) ==
    IF w = 0 THEN << >> ELSE Append(Pad(n \div 10, w - 1), Digits[(n % 10) + 1])

\* calendar.isleap
isleap(year) == year % 4 = 0 /\ (year % 100 # 0 \/ year % 400 = 0)

\* calendar.monthrange(year, month)[1]: number of days of the month
monthrange(year, month) ==
    IF month = 2 THEN (IF isleap(year) THEN 29 ELSE 28)
    ELSE IF month \in {4, 6, 9, 11} THEN 30 ELSE 31

\* a datetime object is a record of its fields
datetime(y, mo, d, h, mi, s) ==
    [year |-> y, month |-> mo, day |-> d, hour |-> h, minute |-> mi, second |-> s]

\* str(datetime), for a datetime without microseconds: 'YYYY-MM-DD hh:mm:ss'
str(dt) ==
    Pad(dt.year, 4) \o << "-" >> \o Pad(dt.month, 2) \o << "-" >> \o Pad(dt.day, 2)
    \o << " " >> \o Pad(dt.hour, 2) \o << ":" >> \o Pad(dt.minute, 2)
    \o << ":" >> \o Pad(dt.second, 2)

\* datetime.strptime(timestamp, '%Y-%m-%d %H:%M:%S') on a string of 19
\* characters: the datetime, or ValueError
strptime(ts) ==
    LET digitsAt == {1, 2, 3, 4, 6, 7, 9, 10, 12, 13, 15, 16, 18, 19}
        shaped == /\ Len(ts) = 19
                  /\ \A i \in digitsAt : IsDigit(ts[i])
                  /\ ts[5] = "-" /\ ts[8] = "-" /\ ts[11] = " "
                  /\ ts[14] = ":" /\ ts[17] = ":"
        dt == datetime(int(Slice(ts, 0, 4)), int(Slice(ts, 5, 7)), int(Slice(ts, 8, 10)),
                       int(Slice(ts, 11, 13)), int(Slice(ts, 14, 16)), int(Slice(ts, 17, 19)))
    IN  IF /\ shaped
           /\ dt.year >= 1 /\ dt.month \in 1..12
           /\ dt.day \in 1..monthrange(dt.year, dt.month)
           /\ dt.hour < 24 /\ dt.minute < 60 /\ dt.second < 60
        THEN [raised |-> "none", value |-> dt]
        ELSE [raised |-> "ValueError", value |-> << >>]

\* get_time on the text of a timestamp: Google's format is cut to the SQL
\* format (a string), the SQL format is parsed (a datetime), anything else
\* terminates the program
get_time_text_Shifted(timestamp) ==
    IF "T" \in Range(timestamp)
    THEN [raised |-> "none",
          value |-> Slice(timestamp, 0, 10) \o << " " >> \o Slice(timestamp, 10, 18)]
    ELSE IF Len(timestamp) = 19 THEN strptime(timestamp)
    ELSE [raised |-> "terminate", value |-> << >>]

get_time_text(timestamp) ==
    IF "T" \in Range(timestamp)
    THEN [raised |-> "none",
          value |-> Slice(timestamp, 0, 10) \o << " " >> \o Slice(timestamp, 11, 19)]
    ELSE IF Len(timestamp) = 19 THEN strptime(timestamp)
    ELSE [raised |-> "terminate", value |-> << >>]

\* datetime.toordinal: day number of the date, 1 January of year 1 being day 1
DaysBeforeYear(year) ==
    LET y == year - 1
    IN  y * 365 + y \div 4 - y \div 100 + y \div 400

RECURSIVE DaysBeforeMonth(_, _)
DaysBeforeMonth(year, month) ==
    IF month <= 1 THEN 0
    ELSE DaysBeforeMonth(year, month - 1) + monthrange(year, month - 1)

toordinal(dt) == DaysBeforeYear(dt.year) + DaysBeforeMonth(dt.year, dt.month) + dt.day

\* (later - earlier).total_seconds(), for datetimes without microseconds
total_seconds(later, earlier) ==
    (toordinal(later) - toordinal(earlier)) * 86400
    + (later.hour - earlier.hour) * 3600
    + (later.minute - earlier.minute) * 60
    + (later.second - earlier.second)

\* (later - earlier).days: whole days of the difference, rounded down
timedelta_days(later, earlier) ==
    LET t == total_seconds(later, earlier)
    IN  IF t >= 0 THEN t \div 86400 ELSE -((-t + 86399) \div 86400)

\* the date() of a datetime
date(dt) == [year |-> dt.year, month |-> dt.month, day |-> dt.day]

\* round(seconds / 60): to the nearest minute, ties to the even minute
RoundMinutes(seconds) ==
    LET q == seconds \div 60
        r == seconds % 60
    IN  IF r < 30 THEN q
        ELSE IF r > 30 THEN q + 1
        ELSE IF q % 2 = 0 THEN q ELSE q + 1

\* ORDER BY on strings: character codes of the characters of a timestamp
Ord(c) ==
    IF c = " " THEN 32 ELSE IF c = "-" THEN 45
    ELSE IF IsDigit(c) THEN 48 + DigitVal(c)
    ELSE IF c = ":" THEN 58 ELSE 84

RECURSIVE TextLess(_, _)
TextLess(s, t) ==
    IF t = << >> THEN FALSE
    ELSE IF s = << >> THEN TRUE
    ELSE IF Ord(Head(s)) # Ord(Head(t)) THEN Ord(Head(s)) < Ord(Head(t))
    ELSE TextLess(Tail(s), Tail(t))

----------------------------------------------------------------------------
(* The store *)

\* The three tables; a row's id is its position (AUTOINCREMENT, rows are never
\* deleted).
EmptyDB == [Journeys |-> << >>, ActivityTypes |-> << >>, Locations |-> << >>]

\* NewJourney with "Complete INTEGER DEFAULT 1" in place of DEFAULT NULL
NewJourney_DefaultComplete(J, start_sql, end_sql) ==
    [id |-> Len(J) + 1, StartTime |-> start_sql, EndTime |-> end_sql,
     StartCity_id |-> NULL, EndCity_id |-> NULL,
     activityGuess_id |-> NULL, P_activity |-> NULL,
     pubTransGuess_id |-> NULL, P_transGuess |-> NULL,
     Complete |-> 1]

NewJourney(J, start_sql, end_sql) ==
    [id |-> Len(J) + 1, StartTime |-> start_sql, EndTime |-> end_sql,
     StartCity_id |-> NULL, EndCity_id |-> NULL,
     activityGuess_id |-> NULL, P_activity |-> NULL,
     pubTransGuess_id |-> NULL, P_transGuess |-> NULL,
     Complete |-> NULL]

\* StartTime ... UNIQUE, EndTime ... UNIQUE
UniqueViolation(J, start_sql, end_sql) ==
    \E i \in 1..Len(J) : J[i].StartTime = start_sql \/ J[i].EndTime = end_sql

\* SelectStartTime with "WHERE EndTime = ?"
SelectStartTime_ByEndTime(J, start_sql) ==
    \E i \in 1..Len(J) : J[i].EndTime = start_sql

\* SELECT StartTime FROM Journeys WHERE StartTime = ?
SelectStartTime(J, start_sql) ==
    \E i \in 1..Len(J) : J[i].StartTime = start_sql

\* SelectIncomplete without "AND Complete IS NULL"
SelectIncomplete_AnyRow(J, start_sql) ==
    IF \E i \in 1..Len(J) : J[i].StartTime = start_sql
    THEN (CHOOSE i \in 1..Len(J) : J[i].StartTime = start_sql)
    ELSE NULL

\* SELECT id FROM Journeys WHERE StartTime = ? AND Complete IS NULL
SelectIncomplete(J, start_sql) ==
    IF \E i \in 1..Len(J) : J[i].StartTime = start_sql /\ J[i].Complete = NULL
    THEN (CHOOSE i \in 1..Len(J) : J[i].StartTime = start_sql /\ J[i].Complete = NULL)
    ELSE NULL

\* InsertOrIgnore as a plain INSERT into a column that is not UNIQUE
InsertOrIgnore_Always(T, v) == Append(T, v)

\* INSERT OR IGNORE INTO <table> (<unique column>) VALUES ( ? )
InsertOrIgnore(T, v) == IF v \in Range(T) THEN T ELSE Append(T, v)

\* SELECT id FROM <table> WHERE <unique column> = ?
SelectId(T, v) == CHOOSE i \in 1..Len(T) : T[i] = v

\* SELECT COUNT(*) FROM Journeys WHERE Complete = 1
total_journey_count(d) ==
    Cardinality({ i \in 1..Len(d.Journeys) : d.Journeys[i].Complete = 1 })

----------------------------------------------------------------------------
(* State *)

VARIABLES
    scenario,             \* the family the inputs are drawn from (never changes)
    disk,                 \* contents of the SQLite file (last commit)
    db,                   \* contents seen through the connection sql_file
    sql_file,             \* global: "None", "open" or "closed"
    new_journey_counter,  \* global counter of this run
    run,                  \* number of the program run
    pc,                   \* position of main / fill_sql
    exit,                 \* how the run ended ("running" while it has not)
    files,                \* files of json_file_list not yet loaded
    src,                  \* "fresh": a file not read before; "replay": the file read last
    more,                 \* items left in a fresh file
    data,                 \* items left in a replayed file
    item,                 \* current item of the loop over data
    a,                    \* index of the current activity (1 = first guess)
    journey_id, activity_id, start_sql, start_city_id, end_city_id,
    log,                  \* history: items of the current file read so far
    prev,                 \* history: the file ingested to its end most recently
    was_new,              \* history: the current item's start instant was not in Journeys
    at,                   \* history: pc at which the run was interrupted
    ingested,             \* history: start instants looked up in Journeys by this run
    out                   \* what the steps after ingestion computed (NoOut during ingestion)

vars == << scenario, disk, db, sql_file, new_journey_counter, run, pc, exit, files, src,
           more, data, item, a, journey_id, activity_id, start_sql,
           start_city_id, end_city_id, log, prev, was_new, at, ingested, out >>

locals == << item, a, journey_id, activity_id, start_sql, start_city_id, end_city_id >>

input == << scenario, files, src, more, data, out >>

history == << log, prev, was_new, at, ingested >>

\* positions inside fill_sql
FillPCs == { "for_item", "first_guess", "start_city", "end_city", "upd_places",
             "ins_activity", "upd_activity", "transit_first", "else_ins",
             "else_upd", "mark", "count" }

\* positions of fill_sql at which a journey row is held and not yet marked complete
InFlightPCs == { "start_city", "end_city", "upd_places", "ins_activity",
                 "upd_activity", "transit_first", "else_ins", "else_upd", "mark" }

\* nothing computed yet
NoOut == [kind |-> "none"]

\* the globals and locals of a program that has not started
Idle ==
    /\ new_journey_counter = 0
    /\ run = 1
    /\ exit = "running"
    /\ files = 0
    /\ src = "fresh"
    /\ more = 0
    /\ data = << >>
    /\ item = NoItem
    /\ a = 0
    /\ journey_id = NULL
    /\ activity_id = NULL
    /\ start_sql = NULL
    /\ start_city_id = NULL
    /\ end_city_id = NULL
    /\ log = << >>
    /\ prev = << >>
    /\ was_new = FALSE
    /\ at = "none"
    /\ ingested = {}

InitState ==
    /\ Idle
    /\ sql_file = "None"
    /\ disk = EmptyDB
    /\ db = EmptyDB
    /\ pc = "check_class"
    /\ out = NoOut

Init == scenario = "store" /\ InitState

InitClassify == scenario = "classify" /\ InitState

InitReplay == scenario = "replay" /\ InitState

InitPlaces == scenario = "places" /\ InitState

InitUpserts == scenario = "upserts" /\ InitState

----------------------------------------------------------------------------
(* terminate and the exception handlers of main *)

\* terminate(): sql_file.close() drops the pending transaction; sys.exit().
\* With no connection opened yet, sql_file.close() raises AttributeError: no
\* message is printed, and inside main's try block "except Exception" calls
\* terminate once more, which raises again and ends the program with a traceback.
\* It is reached directly (check_class, choose_file, sql_define, get_time), from
\* "except KeyboardInterrupt", and from
\* "except Exception as e" for any other exception raised inside main's try.
\* db keeps what the connection saw when it was closed, until the next run.
Terminate(cause) ==
    /\ sql_file' = IF sql_file = "None" THEN "None" ELSE "closed"
    /\ exit' = IF sql_file = "None" THEN "AttributeError" ELSE cause
    /\ pc' = "exited"
    /\ prev' = << >>

----------------------------------------------------------------------------
(* The loop over the activities of a segment *)

\* Subthreshold with "<=" in place of "<"
Subthreshold_Inclusive(activity_p) == activity_p <= threshold_P

\* if activity_p < threshold_P : break
Subthreshold(activity_p) == activity_p < threshold_P

\* IsTransit without the membership test
IsTransit_Any(activity_type) == TRUE

\* activity_type in public_transit_modes
IsTransit(activity_type) == activity_type \in public_transit_modes

\* AfterLoop without the statement that marks the row complete
AfterLoop_NoMark(jid) == [pc |-> "for_item", a |-> 0]

\* after the loop: "if journey_id is not None"
AfterLoop(jid) == [pc |-> IF jid # NULL THEN "mark" ELSE "for_item", a |-> 0]

\* the loop from a guess that is not the first one, up to its next statement that
\* touches the store
RECURSIVE ScanFrom(_, _, _)
ScanFrom(activities, k, jid) ==
    IF k > Len(activities) THEN AfterLoop(jid)
    ELSE IF Subthreshold(activities[k].probability) THEN AfterLoop(jid)
    ELSE IF IsTransit(activities[k].activityType) THEN [pc |-> "else_ins", a |-> k]
    ELSE ScanFrom(activities, k + 1, jid)

\* the loop from the first guess
ScanFirst(activities) ==
    IF Len(activities) = 0 THEN AfterLoop(NULL)
    ELSE IF Subthreshold(activities[1].probability) THEN AfterLoop(NULL)
    ELSE [pc |-> "first_guess", a |-> 1]

----------------------------------------------------------------------------
(* main: before fill_sql *)

\* check_class(user_vars), before main's try block: the user-definable
\* variables are of their classes or can be converted, or terminate() is
\* called without a connection
CheckClass ==
    /\ pc = "check_class"
    /\ \/ /\ pc' = "choose_file"
          /\ UNCHANGED << sql_file, exit, prev >>
       \/ Terminate("wrong class")
    /\ UNCHANGED << disk, db, new_journey_counter, run, locals, input,
                    log, was_new, at, ingested >>

\* choose_file returns the JSON files of the chosen folder
ChooseFile ==
    /\ pc = "choose_file"
    /\ \E n \in 1..MaxFiles : files' = n
    /\ pc' = "sql_define"
    /\ UNCHANGED << scenario, out, disk, db, sql_file, new_journey_counter, run, exit,
                    src, more, data, locals, history >>

\* sql_define: the user confirms the path, sqlite3.connect, CREATE TABLE IF NOT EXISTS
SqlDefine ==
    /\ pc = "sql_define"
    /\ sql_file' = "open"
    /\ db' = disk
    /\ pc' = "load_json"
    /\ UNCHANGED << disk, new_journey_counter, run, exit, input, locals, history >>

\* the user types Q in choose_file or sql_define: terminate() without a connection
QuitAtPrompt ==
    /\ pc \in {"choose_file", "sql_define"}
    /\ Terminate("quit")
    /\ UNCHANGED << disk, db, new_journey_counter, run, locals, input,
                    log, was_new, at, ingested >>

\* for file in json_file_list : data = load_json(file)
LoadJson ==
    /\ pc = "load_json"
    /\ files > 0
    /\ files' = files - 1
    /\ \/ /\ src' = "fresh"
          /\ \E n \in 0..MaxSegs : more' = n
          /\ data' = << >>
       \/ /\ prev # << >>
          /\ src' = "replay"
          /\ more' = 0
          /\ data' = prev
    /\ log' = << >>
    /\ item' = NoItem
    /\ pc' = "for_item"
    /\ prev' = << >>
    /\ UNCHANGED << scenario, out, disk, db, sql_file, new_journey_counter, run, exit,
                    a, journey_id, activity_id, start_sql, start_city_id,
                    end_city_id, was_new, at, ingested >>

----------------------------------------------------------------------------
(* fill_sql *)

\* for item in data : the next item; items other than activity segments are skipped
ForItem ==
    /\ pc = "for_item"
    /\ \/ /\ src = "fresh"
          /\ more > 0
          /\ more' = more - 1
          /\ \E it \in Items(scenario) : item' = it
          /\ data' = data
       \/ /\ src = "replay"
          /\ data # << >>
          /\ item' = Head(data)
          /\ data' = Tail(data)
          /\ more' = more
    /\ log' = IF Recorded(scenario) THEN Append(log, item') ELSE log
    /\ journey_id' = NULL
    /\ activity_id' = NULL
    /\ was_new' = /\ item'.kind = "activitySegment"
                  /\ get_time_ok(item'.start)
                  /\ ~SelectStartTime(db.Journeys, get_time(item'.start))
    /\ LET nxt == IF item'.kind # "activitySegment" THEN AfterLoop(NULL)
                  ELSE ScanFirst(item'.activities)
       IN  pc' = nxt.pc /\ a' = nxt.a
    /\ UNCHANGED << scenario, out, disk, db, sql_file, new_journey_counter, run, exit,
                    files, src, start_sql, start_city_id, end_city_id, prev,
                    at, ingested >>

\* the loop over data is exhausted: fill_sql returns to the loop over the files
FillReturn ==
    /\ pc = "for_item"
    /\ IF src = "fresh" THEN more = 0 ELSE data = << >>
    /\ prev' = log
    /\ pc' = IF files > 0 THEN "load_json" ELSE "commit"
    /\ UNCHANGED << disk, db, sql_file, new_journey_counter, run, exit, input,
                    locals, log, was_new, at, ingested >>

\* first guess, suprathreshold: get_time, look the start time up, insert a new row
FirstGuess ==
    /\ pc = "first_guess"
    /\ UNCHANGED << disk, new_journey_counter, run, input, item, a, activity_id,
                    start_city_id, end_city_id, log, was_new, at >>
    /\ ingested' = IF get_time_ok(item.start) /\ get_time_ok(item.end)
                   THEN ingested \cup {get_time(item.start)} ELSE ingested
    /\ LET s == get_time(item.start)
           e == get_time(item.end)
           J == db.Journeys
           incomplete_row == SelectIncomplete(J, s)
       IN  IF ~get_time_ok(item.start) \/ ~get_time_ok(item.end)
           THEN \* get_time calls terminate
                /\ Terminate("timestamp")
                /\ UNCHANGED << db, journey_id, start_sql >>
           ELSE IF SelectStartTime(J, s) /\ incomplete_row = NULL
           THEN \* break: journey already in the table
                /\ pc' = "for_item"
                /\ start_sql' = s
                /\ UNCHANGED << db, sql_file, exit, prev, journey_id >>
           ELSE IF SelectStartTime(J, s)
           THEN \* journey record incomplete
                /\ journey_id' = incomplete_row
                /\ start_sql' = s
                /\ pc' = "start_city"
                /\ UNCHANGED << db, sql_file, exit, prev >>
           ELSE IF UniqueViolation(J, s, e)
           THEN \* sqlite3.IntegrityError: UNIQUE constraint failed
                /\ Terminate("IntegrityError")
                /\ UNCHANGED << db, journey_id, start_sql >>
           ELSE /\ db' = [db EXCEPT !.Journeys = Append(J, NewJourney(J, s, e))]
                /\ journey_id' = Len(J) + 1
                /\ start_sql' = s
                /\ pc' = "start_city"
                /\ UNCHANGED << sql_file, exit, prev >>

\* get_city for one end of the journey, INSERT OR IGNORE INTO Locations, SELECT id
Resolve(resp, next_pc) ==
    IF resp.status = "raise"
    THEN \* urlopen raises URLError
         /\ Terminate("URLError")
         /\ UNCHANGED << db, start_city_id, end_city_id >>
    ELSE LET L == InsertOrIgnore(db.Locations, get_city(resp))
             id == SelectId(L, get_city(resp))
         IN  /\ db' = [db EXCEPT !.Locations = L]
             /\ IF pc = "start_city"
                THEN start_city_id' = id /\ end_city_id' = end_city_id
                ELSE end_city_id' = id /\ start_city_id' = start_city_id
             /\ pc' = next_pc
             /\ UNCHANGED << sql_file, exit, prev >>

StartCity ==
    /\ pc = "start_city"
    /\ \E resp \in Responses(scenario) : Resolve(resp, "end_city")
    /\ UNCHANGED << disk, new_journey_counter, run, input, item, a, journey_id,
                    activity_id, start_sql, log, was_new, at, ingested >>

EndCity ==
    /\ pc = "end_city"
    /\ \E resp \in Responses(scenario) : Resolve(resp, "upd_places")
    /\ UNCHANGED << disk, new_journey_counter, run, input, item, a, journey_id,
                    activity_id, start_sql, log, was_new, at, ingested >>

\* UPDATE Journeys SET StartCity_id = ?, EndCity_id = ? WHERE id = ?
UpdatePlaces ==
    /\ pc = "upd_places"
    /\ db' = [db EXCEPT !.Journeys[journey_id] =
                 [@ EXCEPT !.StartCity_id = start_city_id, !.EndCity_id = end_city_id]]
    /\ pc' = "ins_activity"
    /\ UNCHANGED << disk, sql_file, new_journey_counter, run, exit, input,
                    locals, history >>

\* INSERT OR IGNORE INTO ActivityTypes, SELECT id (first guess and later guesses)
InsertActivityType ==
    /\ pc \in {"ins_activity", "else_ins"}
    /\ LET T == InsertOrIgnore(db.ActivityTypes, item.activities[a].activityType)
       IN  /\ db' = [db EXCEPT !.ActivityTypes = T]
           /\ activity_id' = SelectId(T, item.activities[a].activityType)
    /\ pc' = IF pc = "ins_activity" THEN "upd_activity" ELSE "else_upd"
    /\ UNCHANGED << disk, sql_file, new_journey_counter, run, exit, input,
                    item, a, journey_id, start_sql, start_city_id, end_city_id,
                    history >>

\* UPDATE Journeys SET activityGuess_id = ?, P_activity = ? WHERE id = ?
UpdateActivity ==
    /\ pc = "upd_activity"
    /\ db' = [db EXCEPT !.Journeys[journey_id] =
                 [@ EXCEPT !.activityGuess_id = activity_id,
                           !.P_activity = Round2(item.activities[a].probability)]]
    /\ LET nxt == IF IsTransit(item.activities[a].activityType)
                  THEN [pc |-> "transit_first", a |-> a]
                  ELSE ScanFrom(item.activities, a + 1, journey_id)
       IN  pc' = nxt.pc /\ a' = nxt.a
    /\ UNCHANGED << disk, sql_file, new_journey_counter, run, exit, input,
                    item, journey_id, activity_id, start_sql, start_city_id,
                    end_city_id, history >>

\* the loop after a public transit guess was stored: from the first guess "break",
\* from a later guess the next iteration
AfterTransit(activities, k, jid) ==
    IF k = 1 THEN AfterLoop(jid) ELSE ScanFrom(activities, k + 1, jid)

\* UPDATE Journeys SET pubTransGuess_id = ?, P_transGuess = ? WHERE id = ?
UpdateTransit ==
    /\ pc \in {"transit_first", "else_upd"}
    /\ db' = [db EXCEPT !.Journeys[journey_id] =
                 [@ EXCEPT !.pubTransGuess_id = activity_id,
                           !.P_transGuess = Round2(item.activities[a].probability)]]
    /\ LET nxt == AfterTransit(item.activities, a, journey_id)
       IN  pc' = nxt.pc /\ a' = nxt.a
    /\ UNCHANGED << disk, sql_file, new_journey_counter, run, exit, input,
                    item, journey_id, activity_id, start_sql, start_city_id,
                    end_city_id, history >>

\* UPDATE Journeys SET Complete = 1 WHERE id = ?
MarkComplete ==
    /\ pc = "mark"
    /\ db' = [db EXCEPT !.Journeys[journey_id] = [@ EXCEPT !.Complete = 1]]
    /\ pc' = "count"
    /\ UNCHANGED << disk, sql_file, new_journey_counter, run, exit, input,
                    locals, history >>

\* new_journey_counter += 1
CountJourney ==
    /\ pc = "count"
    /\ new_journey_counter' = new_journey_counter + 1
    /\ pc' = "for_item"
    /\ UNCHANGED << disk, db, sql_file, run, exit, input, locals, history >>

----------------------------------------------------------------------------
(* main: after fill_sql *)

\* if new_journey_counter > 0 : sql_file.commit()
Commit ==
    /\ pc = "commit"
    /\ disk' = IF new_journey_counter > 0 THEN db ELSE disk
    /\ pc' = "report"
    /\ UNCHANGED << db, sql_file, new_journey_counter, run, exit, input,
                    locals, history >>

\* the two print statements with new_journey_counter and total_journey_count(cur)
Report ==
    /\ pc = "report"
    /\ pc' = "read_sql"
    /\ UNCHANGED << disk, db, sql_file, new_journey_counter, run, exit, input,
                    locals, history >>

\* read_sql ... activities_over_time read the store, then sql_file.close();
\* read_sql raises IndexError on journeys[0] when the Journeys table is empty
Analyse ==
    /\ pc = "read_sql"
    /\ IF db.Journeys = << >>
       THEN Terminate("IndexError")
       ELSE /\ sql_file' = "closed"
            /\ exit' = "finished"
            /\ pc' = "exited"
            /\ prev' = prev
    /\ UNCHANGED << disk, db, new_journey_counter, run, input, locals,
                    log, was_new, at, ingested >>

\* Ctrl+C inside fill_sql: commit if anything was counted, report, terminate
InterruptFill ==
    /\ pc \in FillPCs
    /\ disk' = IF new_journey_counter > 0 THEN db ELSE disk
    /\ at' = pc
    /\ Terminate("KeyboardInterrupt")
    /\ UNCHANGED << db, new_journey_counter, run, input, locals, log, was_new, ingested >>

\* Ctrl+C elsewhere in main's try block: terminate
InterruptMain ==
    /\ pc \in {"choose_file", "sql_define", "load_json", "commit", "report", "read_sql"}
    /\ at' = pc
    /\ Terminate("KeyboardInterrupt")
    /\ UNCHANGED << disk, db, new_journey_counter, run, input, locals, log,
                    was_new, ingested >>

\* the program is started again on the same SQLite file
NextRun ==
    /\ pc = "exited"
    /\ run < MaxRuns
    /\ run' = run + 1
    /\ sql_file' = "None"
    /\ new_journey_counter' = 0
    /\ pc' = "check_class"
    /\ exit' = "running"
    /\ files' = 0
    /\ src' = "fresh"
    /\ more' = 0
    /\ data' = << >>
    /\ item' = NoItem
    /\ a' = 0
    /\ journey_id' = NULL
    /\ activity_id' = NULL
    /\ start_sql' = NULL
    /\ start_city_id' = NULL
    /\ end_city_id' = NULL
    /\ log' = << >>
    /\ at' = "none"
    /\ was_new' = FALSE
    /\ db' = disk
    /\ ingested' = {}
    /\ UNCHANGED << scenario, out, disk, prev >>

Next ==
    \/ CheckClass
    \/ ChooseFile
    \/ SqlDefine
    \/ QuitAtPrompt
    \/ LoadJson
    \/ ForItem
    \/ FillReturn
    \/ FirstGuess
    \/ StartCity
    \/ EndCity
    \/ UpdatePlaces
    \/ InsertActivityType
    \/ UpdateActivity
    \/ UpdateTransit
    \/ MarkComplete
    \/ CountJourney
    \/ Commit
    \/ Report
    \/ Analyse
    \/ InterruptFill
    \/ InterruptMain
    \/ NextRun

Spec == Init /\ [][Next]_vars

SpecClassify == InitClassify /\ [][Next]_vars

SpecReplay == InitReplay /\ [][Next]_vars

SpecPlaces == InitPlaces /\ [][Next]_vars

SpecUpserts == InitUpserts /\ [][Next]_vars

----------------------------------------------------------------------------
(* A timestamp on its way from the JSON file to the store and back *)

\* instants of the location history
StampInstants ==
    { dt \in [year : {2023, 2024}, month : {1, 2, 7, 12}, day : {1, 28, 29, 31},
              hour : {0, 15, 23}, minute : {0, 54, 59}, second : {0, 25, 59}] :
        dt.day <= monthrange(dt.year, dt.month) }

\* what follows the seconds in Google's format ("len varies")
Fractions == { << "Z" >>, << ".", "5", "Z" >>, << ".", "8", "8", "1", "Z" >> }

\* Google's format of an instant, e.g. 2023-07-01T15:54:25.881Z
GoogleText(dt, fraction) ==
    Slice(str(dt), 0, 10) \o << "T" >> \o Slice(str(dt), 11, 19) \o fraction

\* a timestamp in neither format
OtherText == << "n", "o", "n", "e" >>

\* fill_sql: start_sql = get_time(start_time); a timestamp in neither format
\* terminates the program
StoreStamp ==
    /\ pc = "get_time"
    /\ LET r == get_time_text(out.timestamp)
       IN  /\ out' = [out EXCEPT !.sql = r]
           /\ pc' = IF r.raised = "none" THEN "read_back" ELSE "exited"
           /\ exit' = IF r.raised = "none" THEN exit ELSE "timestamp"
    /\ UNCHANGED << scenario, disk, db, sql_file, new_journey_counter, run, files,
                    src, more, data, locals, history >>

\* read_sql: very_first_journey = get_time(journeys[0][1]) on the stored string
ReadStamp ==
    /\ pc = "read_back"
    /\ out' = [out EXCEPT !.parsed = get_time_text(out.sql.value)]
    /\ pc' = "done"
    /\ UNCHANGED << scenario, disk, db, sql_file, new_journey_counter, run, exit,
                    files, src, more, data, locals, history >>

InitStamps ==
    /\ scenario = "stamps"
    /\ Idle
    /\ sql_file = "open"
    /\ disk = EmptyDB
    /\ db = EmptyDB
    /\ pc = "get_time"
    /\ \E ts \in { [instant |-> dt, timestamp |-> GoogleText(dt, f)] :
                       dt \in StampInstants, f \in Fractions }
                  \cup { [instant |-> NoOut, timestamp |-> OtherText] } :
          out = [kind |-> "stamp", instant |-> ts.instant, timestamp |-> ts.timestamp,
                 sql |-> NoOut, parsed |-> NoOut]

NextStamps ==
    \/ StoreStamp
    \/ ReadStamp

SpecStamps == InitStamps /\ [][NextStamps]_vars

----------------------------------------------------------------------------
(* read_sql, get_public_transit_sql, calculate_summarize, activities_over_time *)

\* None where a datetime is expected
None == datetime(0, 0, 0, 0, 0, 0)

\* SELECT * FROM Journeys ORDER BY StartTime
RECURSIVE OrderByStartTime(_)
OrderByStartTime(J) ==
    IF J = << >> THEN << >>
    ELSE LET i == CHOOSE i \in 1..Len(J) :
                     \A j \in 1..Len(J) : ~TextLess(J[j].StartTime, J[i].StartTime)
             rest == [k \in 1..(Len(J) - 1) |-> IF k < i THEN J[k] ELSE J[k + 1]]
         IN  << J[i] >> \o OrderByStartTime(rest)

\* get_public_transit_sql(cur, journey): (1, start of the trip) for a journey
\* with a public transit guess that starts and ends in Vienna, else (0, None)
get_public_transit_sql_AnyEnd(d, journey) ==
    IF journey.pubTransGuess_id # NULL
    THEN LET city_name == d.Locations[journey.StartCity_id]
         IN  IF city_name = "Vienna, Austria"
             THEN [counter |-> 1, trip_start |-> get_time_text(journey.StartTime).value]
             ELSE [counter |-> 0, trip_start |-> None]
    ELSE [counter |-> 0, trip_start |-> None]

get_public_transit_sql(d, journey) ==
    IF journey.pubTransGuess_id # NULL
    THEN LET city_name == d.Locations[journey.StartCity_id]
         IN  IF journey.EndCity_id = journey.StartCity_id /\ city_name = "Vienna, Austria"
             THEN [counter |-> 1, trip_start |-> get_time_text(journey.StartTime).value]
             ELSE [counter |-> 0, trip_start |-> None]
    ELSE [counter |-> 0, trip_start |-> None]

\* the loop of read_sql over journeys[k..]: vienna_pubtrans_count at its end
RECURSIVE CountTrips_KeepFirst(_, _, _, _, _, _)
CountTrips_KeepFirst(d, journeys, k, last_trip_start, count, tt) ==
    IF k > Len(journeys) THEN count
    ELSE LET r == get_public_transit_sql(d, journeys[k])
         IN  IF r.trip_start # None
             THEN IF last_trip_start = None
                  THEN CountTrips_KeepFirst(d, journeys, k + 1, r.trip_start,
                                            count + r.counter, tt)
                  ELSE IF RoundMinutes(total_seconds(r.trip_start, last_trip_start)) > tt
                  THEN CountTrips_KeepFirst(d, journeys, k + 1, r.trip_start,
                                            count + r.counter, tt)
                  ELSE CountTrips_KeepFirst(d, journeys, k + 1, last_trip_start, count, tt)
             ELSE CountTrips_KeepFirst(d, journeys, k + 1, last_trip_start, count, tt)

RECURSIVE CountTrips(_, _, _, _, _, _)
CountTrips(d, journeys, k, last_trip_start, count, tt) ==
    IF k > Len(journeys) THEN count
    ELSE LET r == get_public_transit_sql(d, journeys[k])
         IN  IF r.trip_start # None
             THEN LET d_rides == RoundMinutes(total_seconds(r.trip_start, last_trip_start))
                      add == IF last_trip_start = None THEN r.counter
                             ELSE IF d_rides > tt THEN r.counter ELSE 0
                  IN  CountTrips(d, journeys, k + 1, r.trip_start, count + add, tt)
             ELSE CountTrips(d, journeys, k + 1, last_trip_start, count, tt)

\* period_analyzed = time_difference.days + 1
period_analyzed(very_first_journey, very_last_journey) ==
    timedelta_days(very_last_journey, very_first_journey) + 1

\* read_sql(cur, ticket_time) on a store with at least one journey
read_sql(d, tt) ==
    LET journeys == OrderByStartTime(d.Journeys)
        very_first_journey == get_time_text(journeys[1].StartTime).value
        very_last_journey == get_time_text(journeys[Len(journeys)].StartTime).value
    IN  [ journeys |-> journeys,
          very_first_journey |-> very_first_journey,
          very_last_journey |-> very_last_journey,
          period_analyzed |-> period_analyzed(very_first_journey, very_last_journey),
          vienna_pubtrans_count |-> CountTrips(d, journeys, 1, None, 0, tt) ]

\* round(n / unit): to the nearest integer, ties to even; n may be negative
RoundDiv(n, unit) ==
    LET m == IF n < 0 THEN -n ELSE n
        q == m \div unit
        r == m % unit
        up == IF 2 * r < unit THEN q
              ELSE IF 2 * r > unit THEN q + 1
              ELSE IF q % 2 = 0 THEN q ELSE q + 1
    IN  IF n < 0 THEN -up ELSE up

\* calculate_summarize.  Prices and totals are in cents; the pro-rated yearly
\* cost yearly_ticket_price * (period_analyzed / 365) is kept as its 365-fold;
\* d_ticket_prices = round(difference, 1) is in tenths of a Euro.
calculate_summarize(single_ticket_price, vienna_pubtrans_count, yearly_ticket_price, period) ==
    LET single_ticket_all_rides == single_ticket_price * vienna_pubtrans_count
        yearly_ticket_per_period_365 == yearly_ticket_price * period
        difference_365 == 365 * single_ticket_all_rides - yearly_ticket_per_period_365
        d_ticket_prices == RoundDiv(difference_365, 3650)
    IN  [ single_ticket_all_rides |-> single_ticket_all_rides,
          yearly_ticket_per_period_365 |-> yearly_ticket_per_period_365,
          printed |-> IF d_ticket_prices > 0 THEN "yearly ticket would have saved"
                      ELSE "yearly ticket would have cost more",
          amount |-> IF d_ticket_prices > 0 THEN d_ticket_prices ELSE -d_ticket_prices ]

\* calendar.month_name
month_name_of == << "January", "February", "March", "April", "May", "June", "July",
                    "August", "September", "October", "November", "December" >>

\* activity_name.replace('_', ' ') on the activity types of the location history
replace_underscore(activity_name) ==
    CASE activity_name = "IN_PASSENGER_VEHICLE" -> "IN PASSENGER VEHICLE"
      [] activity_name = "IN_BUS" -> "IN BUS"
      [] activity_name = "IN_TRAM" -> "IN TRAM"
      [] activity_name = "IN_SUBWAY" -> "IN SUBWAY"
      [] activity_name = "IN_TRAIN" -> "IN TRAIN"
      [] OTHER -> activity_name

\* the name under which an activity type is counted
category(activity_name) ==
    IF activity_name \in public_transit_modes THEN "PUBLIC TRANSIT"
    ELSE replace_underscore(activity_name)

\* activity_dict: activity id -> category
activity_dict(activities) == [id \in 1..Len(activities) |-> category(activities[id])]

\* activity_list: the categories in the order of their first activity id
activity_list_FirstOnly(activities) ==
    IF activities = << >> THEN << >> ELSE << category(activities[1]) >>

RECURSIVE activity_list(_)
activity_list(activities) ==
    IF activities = << >> THEN << >>
    ELSE LET before == activity_list(SubSeq(activities, 1, Len(activities) - 1))
             name == category(activities[Len(activities)])
         IN  IF name \in Range(before) THEN before ELSE Append(before, name)

\* days_in_month as computed for a journey of the given month and year
days_in_month(year, month, first, last) ==
    LET whole == monthrange(int(year), int(month))
        from_first == IF Slice(first, 5, 7) = month /\ Slice(first, 8, 10) # << "0", "1" >>
                      THEN whole - int(Slice(first, 8, 10)) + 1
                      ELSE whole
    IN  IF Slice(last, 5, 7) = month /\ int(Slice(last, 8, 10)) # from_first
        THEN int(Slice(last, 8, 10))
        ELSE from_first

\* a new bucket of counts: 'Days' and a count of 0 for every category of categories
new_bucket(days, categories) ==
    [Days |-> days, count |-> [c \in Range(categories) |-> 0]]

\* the loop of activities_over_time over journeys[k..]; counts is a function
\* from month names (month, year) to buckets
RECURSIVE CountActivities(_, _, _, _, _, _)
CountActivities(d, journeys, k, first, last, counts) ==
    IF k > Len(journeys) THEN counts
    ELSE LET journey == journeys[k]
             month == Slice(journey.StartTime, 5, 7)
             year == Slice(journey.StartTime, 0, 4)
             month_name == << month_name_of[int(month)], year >>
             categories == activity_list(d.ActivityTypes)
             opened == IF month_name \in DOMAIN counts THEN counts
                       ELSE counts @@ (month_name :>
                                new_bucket(days_in_month(year, month, first, last),
                                           categories))
             counted == IF journey.activityGuess_id = NULL THEN opened
                        ELSE LET activity == activity_dict(d.ActivityTypes)[journey.activityGuess_id]
                             IN  [opened EXCEPT ![month_name].count[activity] = @ + 1]
         IN  CountActivities(d, journeys, k + 1, first, last, counted)

\* activities_over_time; counts_per_day is in hundredths
activities_over_time(d, journeys, very_first_journey, very_last_journey) ==
    LET categories == activity_list(d.ActivityTypes)
        counts == CountActivities(d, journeys, 1, str(very_first_journey),
                                  str(very_last_journey), << >>)
    IN  [ activity_list |-> categories,
          counts |-> counts,
          counts_per_day |->
              [m \in DOMAIN counts |->
                  [c \in DOMAIN counts[m].count |->
                      RoundDiv(100 * counts[m].count[c], counts[m].Days)]] ]

----------------------------------------------------------------------------
(* main: after the ingestion *)

\* the rows of a store that is analysed: a journey as fill_sql completes it
Journey(start, places, transit, activity) ==
    [ StartTime |-> str(start), EndTime |-> str(start),
      StartCity_id |-> places[1], EndCity_id |-> places[2],
      activityGuess_id |-> activity, P_activity |-> threshold_P,
      pubTransGuess_id |-> transit,
      P_transGuess |-> IF transit = NULL THEN NULL ELSE threshold_P,
      Complete |-> 1 ]

\* sequences of at most n rows with different start times
RowsOver(rows, n) ==
    UNION { { J \in [1..k -> rows] :
                \A i \in 1..k, j \in 1..k : i # j => J[i].StartTime # J[j].StartTime }
            : k \in 0..n }

AnalysisLocations == << "Vienna, Austria", "Graz, Austria" >>

AnalysisActivities == << "WALKING", "IN_BUS", "IN_TRAM", "IN_PASSENGER_VEHICLE" >>

\* journeys of one morning, by their start in seconds after 08:00: T, T+5,
\* T+10, T+40:30, T+40:31, T+45 and T+50 minutes
MorningStart(s) == datetime(2023, 3, 10, 8 + (s \div 3600), (s % 3600) \div 60, s % 60)

TripStarts == { MorningStart(s) : s \in {0, 300, 600, 2430, 2431, 2700, 3000} }

\* by bus inside Vienna at each start; at T+5 and T+45 also a walk inside
\* Vienna, a bus from Vienna to Graz and a bus inside Graz
TripRows ==
    { Journey(t, << 1, 1 >>, 2, 2) : t \in TripStarts }
    \cup { Journey(t, v.places, v.transit, v.activity) :
             t \in { MorningStart(300), MorningStart(2700) },
             v \in { [places |-> << 1, 1 >>, transit |-> NULL, activity |-> 1],
                     [places |-> << 1, 2 >>, transit |-> 2, activity |-> 2],
                     [places |-> << 2, 2 >>, transit |-> 2, activity |-> 2] } }

\* journeys early and late on consecutive days, around the end of a month
PeriodStarts ==
    { dt \in [year : {2023}, month : {3, 4}, day : {1, 30, 31}, hour : {1, 23},
              minute : {0}, second : {0}] : dt.day <= monthrange(dt.year, dt.month) }

PeriodRows == { Journey(t, << 1, 1 >>, 2, 2) : t \in PeriodStarts }

\* journeys at noon on days of March and April 2023 and of March and May
\* 2024; walking or by tram (public transit)
TimelineStarts ==
    { datetime(2023, 3, 1, 12, 0, 0), datetime(2023, 3, 10, 12, 0, 0),
      datetime(2023, 3, 20, 12, 0, 0), datetime(2023, 3, 22, 12, 0, 0),
      datetime(2023, 3, 31, 12, 0, 0), datetime(2023, 4, 15, 12, 0, 0),
      datetime(2024, 3, 5, 12, 0, 0), datetime(2024, 5, 5, 12, 0, 0) }

TimelineRows ==
    { Journey(t, << 1, 1 >>, NULL, 1) : t \in TimelineStarts }
    \cup { Journey(t, << 1, 1 >>, 3, 3) : t \in TimelineStarts }

\* transit journeys inside Vienna at noon, on 1, 2 and 3 March 2023
CostStarts == { datetime(2023, 3, d, 12, 0, 0) : d \in {1, 2, 3} }

CostRows == { Journey(t, << 1, 1 >>, 2, 2) : t \in CostStarts }

\* the row of a journey that fill_sql has inserted and not yet filled in
Inserted(start) ==
    [ StartTime |-> str(start), EndTime |-> str(start),
      StartCity_id |-> NULL, EndCity_id |-> NULL,
      activityGuess_id |-> NULL, P_activity |-> NULL,
      pubTransGuess_id |-> NULL, P_transGuess |-> NULL,
      Complete |-> NULL ]

\* the row of a journey that fill_sql has filled in and not yet marked complete
Unmarked(start, places, transit, activity) ==
    [Journey(start, places, transit, activity) EXCEPT !.Complete = NULL]

\* two mornings an hour apart and a noon of the next month
LeftoverStarts ==
    { datetime(2023, 3, 10, 8, 0, 0), datetime(2023, 3, 10, 9, 0, 0),
      datetime(2023, 4, 5, 12, 0, 0) }

\* bus rides inside Vienna: complete, or left under construction by an
\* interrupted run
LeftoverRows ==
    { Journey(t, << 1, 1 >>, 2, 2) : t \in LeftoverStarts }
    \cup { Unmarked(t, << 1, 1 >>, 2, 2) : t \in LeftoverStarts }
    \cup { Inserted(t) : t \in LeftoverStarts }

AnalysisScenarios == {"trips", "period", "timeline", "cost", "leftover"}

AnalysisRows(scn) ==
    CASE scn = "trips" -> TripRows
      [] scn = "period" -> PeriodRows
      [] scn = "timeline" -> TimelineRows
      [] scn = "cost" -> CostRows
      [] scn = "leftover" -> LeftoverRows

\* ticket prices in cents, (single, yearly), as get_prices returns them after
\* the user confirmed or typed them
PricePairs(scn) ==
    IF scn = "cost"
    THEN {240, 100} \X {36500, 86505, 87600, 88695}
    ELSE { << 240, 36500 >> }

\* nothing was computed yet by the steps after the ingestion
NoAnalysis ==
    [kind |-> "analysis", read |-> NoOut, prices |-> NoOut, summary |-> NoOut,
     timeline |-> NoOut]

\* journeys, very_first_journey, ... = read_sql(cur, ticket_time); journeys[0]
\* raises IndexError when the Journeys table is empty
ReadSql ==
    /\ pc = "read_sql"
    /\ IF db.Journeys = << >>
       THEN Terminate("IndexError") /\ out' = out
       ELSE /\ out' = [out EXCEPT !.read = read_sql(db, ticket_time)]
            /\ pc' = "get_prices"
            /\ UNCHANGED << sql_file, exit, prev >>
    /\ UNCHANGED << scenario, disk, db, new_journey_counter, run, files, src, more,
                    data, locals, log, was_new, at, ingested >>

\* single_ticket_price, yearly_ticket_price = get_prices()
GetPrices ==
    /\ pc = "get_prices"
    /\ \E pr \in PricePairs(scenario) :
          out' = [out EXCEPT !.prices = [single |-> pr[1], yearly |-> pr[2]]]
    /\ pc' = "calculate_summarize"
    /\ UNCHANGED << scenario, disk, db, sql_file, new_journey_counter, run, exit,
                    files, src, more, data, locals, history >>

\* single_ticket_all_rides, yearly_ticket_per_period = calculate_summarize(...)
CalculateSummarize ==
    /\ pc = "calculate_summarize"
    /\ out' = [out EXCEPT !.summary =
                  calculate_summarize(out.prices.single, out.read.vienna_pubtrans_count,
                                      out.prices.yearly, out.read.period_analyzed)]
    /\ pc' = "activities_over_time"
    /\ UNCHANGED << scenario, disk, db, sql_file, new_journey_counter, run, exit,
                    files, src, more, data, locals, history >>

\* activity_list, counts, counts_per_day = activities_over_time(...)
ActivitiesOverTime ==
    /\ pc = "activities_over_time"
    /\ out' = [out EXCEPT !.timeline =
                  activities_over_time(db, out.read.journeys,
                                       out.read.very_first_journey,
                                       out.read.very_last_journey)]
    /\ pc' = "close"
    /\ UNCHANGED << scenario, disk, db, sql_file, new_journey_counter, run, exit,
                    files, src, more, data, locals, history >>

\* sql_file.close(); the graphs are not modelled
CloseStore ==
    /\ pc = "close"
    /\ sql_file' = "closed"
    /\ exit' = "finished"
    /\ pc' = "exited"
    /\ UNCHANGED << scenario, disk, db, new_journey_counter, run, files, src, more,
                    data, locals, history, out >>

\* the program after the ingestion of a run, over a committed store
InitAnalysis(scn) ==
    /\ scenario = scn
    /\ Idle
    /\ sql_file = "open"
    /\ pc = "read_sql"
    /\ \E J \in RowsOver(AnalysisRows(scn), MaxRows) :
          db = [Journeys |-> J, ActivityTypes |-> AnalysisActivities,
                Locations |-> AnalysisLocations]
    /\ disk = db
    /\ out = NoAnalysis

InitTrips == InitAnalysis("trips")

InitPeriod == InitAnalysis("period")

InitTimeline == InitAnalysis("timeline")

InitCost == InitAnalysis("cost")

InitLeftover == InitAnalysis("leftover")

NextAnalysis ==
    \/ ReadSql
    \/ GetPrices
    \/ CalculateSummarize
    \/ ActivitiesOverTime
    \/ CloseStore

SpecTrips == InitTrips /\ [][NextAnalysis]_vars

SpecPeriod == InitPeriod /\ [][NextAnalysis]_vars

SpecTimeline == InitTimeline /\ [][NextAnalysis]_vars

SpecCost == InitCost /\ [][NextAnalysis]_vars

SpecLeftover == InitLeftover /\ [][NextAnalysis]_vars

----------------------------------------------------------------------------
(* json_redact: redact_data on a segment of the location history *)

\* JSON values as a tagged tree: a string, an integer, a float (num counts
\* hundredths), a mapping (keys and kids in the order of the file) or a sequence
JString(text) == [tag |-> "str", num |-> 0, str |-> text, keys |-> << >>, kids |-> << >>]

JInt(n) == [tag |-> "int", num |-> n, str |-> "", keys |-> << >>, kids |-> << >>]

JFloat(hundredths) ==
    [tag |-> "float", num |-> hundredths, str |-> "", keys |-> << >>, kids |-> << >>]

JDict(keys, kids) == [tag |-> "dict", num |-> 0, str |-> "", keys |-> keys, kids |-> kids]

JList(kids) == [tag |-> "list", num |-> 0, str |-> "", keys |-> << >>, kids |-> kids]

redaction_list == { "transitPath", "simplifiedRawPath", "deviceTag", "placeId" }

\* 'E7' in key, on the keys of the location history
ContainsE7(key) == key \in { "latitudeE7", "longitudeE7", "latE7", "lngE7" }

\* len(str(value)) of an integer: its digits, and the sign of a negative one
RECURSIVE value_len(_)
value_len(value) ==
    IF value < 0 THEN 1 + value_len(-value)
    ELSE IF value < 10 THEN 1
    ELSE 1 + value_len(value \div 10)

RECURSIVE Pow10(_)
Pow10(n) == IF n = 0 THEN 1 ELSE 10 * Pow10(n - 1)

\* round(value * 10**(-(value_len - 2)), 2), in hundredths, for an integer of
\* at least four characters
low_resolution(value) == RoundDiv(value, Pow10(value_len(value) - 4))

\* redact_data(activity_segment): the mapping after the call
RECURSIVE redact_data(_)
redact_data(activity_segment) ==
    [activity_segment EXCEPT !.kids =
        [i \in 1..Len(activity_segment.kids) |->
            LET key == activity_segment.keys[i]
                value == activity_segment.kids[i]
            IN  IF key \in redaction_list THEN JString("REDACTED")
                ELSE IF ContainsE7(key) THEN JFloat(low_resolution(value.num))
                ELSE IF value.tag = "dict" THEN redact_data(value)
                ELSE IF value.tag = "list"
                THEN [value EXCEPT !.kids =
                         [j \in 1..Len(value.kids) |->
                             IF value.kids[j].tag = "dict"
                             THEN redact_data(value.kids[j])
                             ELSE value.kids[j]]]
                ELSE value]]

\* a text, a latitude of Vienna and a longitude of Stuttgart (48.1234567 and
\* 9.1234567 degrees)
Scalars == { JString("x"), JInt(481234567), JInt(91234567) }

SegmentKeys == { "placeId", "latitudeE7", "waypoints" }

\* values nested up to depth mappings and sequences deep, each mapping with
\* one key and each sequence with one item; an E7 key holds an integer
RECURSIVE Trees(_)
Trees(depth) ==
    IF depth = 0 THEN Scalars
    ELSE LET below == Trees(depth - 1)
         IN  below
             \cup { JDict(<< k >>, << t >>) :
                      k \in SegmentKeys \ { "latitudeE7" }, t \in below }
             \cup { JDict(<< "latitudeE7" >>, << t >>) :
                      t \in { v \in Scalars : v.tag = "int" } }
             \cup { JList(<< t >>) : t \in below }

\* mappings with a sensitive key, a coordinate and one more key side by side
SiblingSegments ==
    { JDict(<< "placeId", "latitudeE7", "waypoints" >>, << JString("x"), c, t >>) :
        c \in { v \in Scalars : v.tag = "int" }, t \in Trees(1) }

\* the segments handed to redact_data
Segments == { t \in Trees(MaxDepth) : t.tag = "dict" } \cup SiblingSegments

\* redacted_segment = redact_data(activity_segment)
RedactData ==
    /\ pc = "redact_data"
    /\ out' = [out EXCEPT !.redacted = redact_data(out.activity_segment)]
    /\ pc' = "save_file"
    /\ UNCHANGED << scenario, disk, db, sql_file, new_journey_counter, run, exit,
                    files, src, more, data, locals, history >>

InitRedact ==
    /\ scenario = "redact"
    /\ Idle
    /\ sql_file = "None"
    /\ disk = EmptyDB
    /\ db = EmptyDB
    /\ pc = "redact_data"
    /\ \E segment \in Segments :
          out = [kind |-> "redact", activity_segment |-> segment, redacted |-> NoOut]

NextRedact == RedactData

SpecRedact == InitRedact /\ [][NextRedact]_vars

----------------------------------------------------------------------------
(* Vocabulary of the properties *)

\* rows of a Journeys table with the given start instant
RowsAt(J, start) == { i \in 1..Len(J) : J[i].StartTime = start }

UniqueStart(J) ==
    \A i \in 1..Len(J), j \in 1..Len(J) : i # j => J[i].StartTime # J[j].StartTime

\* the item is an activity segment whose top-ranked guess reaches the threshold
TopReaches(it) ==
    /\ it.kind = "activitySegment"
    /\ Len(it.activities) > 0
    /\ it.activities[1].probability >= threshold_P

\* every journey complete in the connection's view is in the file, unchanged
CompleteRowsDurable ==
    \A i \in 1..Len(db.Journeys) :
        db.Journeys[i].Complete = 1 =>
            i <= Len(disk.Journeys) /\ disk.Journeys[i] = db.Journeys[i]

\* rank of the first guess that reaches the threshold and is a transit mode, or 0
FirstTransit(activities) ==
    LET hits == { k \in 1..Len(activities) :
                    /\ activities[k].probability >= threshold_P
                    /\ activities[k].activityType \in public_transit_modes }
    IN  IF hits = {} THEN 0 ELSE CHOOSE k \in hits : \A h \in hits : k <= h

----------------------------------------------------------------------------
(* C1 *)

\* a step of fill_sql over a file loaded once more leaves the journeys alone
ReplayStep ==
    (src = "replay" /\ pc \in FillPCs) =>
        /\ db'.Journeys = db.Journeys
        /\ total_journey_count(db') = total_journey_count(db)
        /\ new_journey_counter' = new_journey_counter

\* C1: idempotence of ingestion.  While a file that was already ingested to
\* its end (earlier in this run, or by the previous run when that run
\* finished) is ingested once more, no step changes the Journeys table, the
\* number of complete journeys or new_journey_counter.
C1_Idempotent == [][ ReplayStep ]_vars

\* a file with an ingested segment was read to its end a second time, in a later run
C1_Witness ==
    /\ pc = "for_item" /\ src = "replay" /\ data = << >>
    /\ run > 1
    /\ \E k \in 1..Len(log) : TopReaches(log[k])
    /\ total_journey_count(db) > 0

----------------------------------------------------------------------------
(* C2 *)

\* a step keeps StartTime unique, and the lookup of a start instant that is
\* already stored resumes or skips
SecondObservationStep ==
    /\ UniqueStart(db'.Journeys)
    /\ UniqueStart(disk'.Journeys)
    /\ ( /\ pc = "first_guess"
         /\ get_time_ok(item.start) /\ get_time_ok(item.end)
         /\ RowsAt(db.Journeys, get_time(item.start)) # {} )
       => \/ exit' = "KeyboardInterrupt"
          \/ \E i \in RowsAt(db.Journeys, get_time(item.start)) :
                /\ db' = db
                /\ exit' = "running"
                /\ IF db.Journeys[i].Complete = 1
                   THEN journey_id' = NULL /\ pc' = "for_item"
                   ELSE journey_id' = i /\ pc' = "start_city"

\* C2: StartTime is never duplicated, in the connection's view and in the
\* file; a segment whose start instant is already in Journeys either resumes
\* the incomplete row (no row is added) or, the row being complete, leaves the
\* store as it is and is skipped.  Only Ctrl+C can end the run at that point.
C2_UniqueStartTime == [][ SecondObservationStep ]_vars

\* a run resumes the row that an interrupted run left incomplete
C2_Witness ==
    /\ pc = "start_city" /\ ~was_new /\ run > 1
    /\ RowsAt(db.Journeys, start_sql) = {journey_id}
    /\ Len(db.Journeys) > 1

----------------------------------------------------------------------------
(* C3 *)

\* C3: resumable ingestion.  After Ctrl+C between the lookup of a segment's
\* start instant and the statement that marks its row complete, no journey
\* with that start instant is complete in the file; and when a run finishes,
\* the file holds, for every start instant the run looked up (the rows an
\* interrupted run left incomplete among them), exactly one journey, and that
\* journey is complete.
C3_Resumable ==
    /\ (pc = "exited" /\ exit = "KeyboardInterrupt" /\ at \in InFlightPCs) =>
          \A i \in RowsAt(disk.Journeys, start_sql) : disk.Journeys[i].Complete # 1
    /\ (pc = "exited" /\ exit = "finished") =>
          \A s \in ingested :
              /\ Cardinality(RowsAt(disk.Journeys, s)) = 1
              /\ \A i \in RowsAt(disk.Journeys, s) : disk.Journeys[i].Complete = 1

\* a later run finished whose last segment resumed the row that an interrupted
\* run had left incomplete in the file
C3_Witness ==
    /\ pc = "exited" /\ exit = "finished" /\ run > 1
    /\ ~was_new /\ journey_id # NULL
    /\ start_sql \in ingested
    /\ RowsAt(disk.Journeys, start_sql) = {journey_id}
    /\ disk.Journeys[journey_id].Complete = 1

----------------------------------------------------------------------------
(* C4 *)

\* C4: durability under user interrupt.  When Ctrl+C has ended the run, every
\* journey that was marked complete before it is in the file, complete.
C4_DurableOnInterrupt ==
    (pc = "exited" /\ exit = "KeyboardInterrupt") => CompleteRowsDurable

----------------------------------------------------------------------------
(* C5 *)

\* C5: partial-batch commit.  When a malformed timestamp has ended the run,
\* every journey completed earlier in the run is in the file, complete.
C5_DurableOnMalformedTimestamp ==
    (pc = "exited" /\ exit = "timestamp") => CompleteRowsDurable

----------------------------------------------------------------------------
(* C6 *)

\* C6: a failure of the place lookup never ends the run: the segment is
\* completed with the placeholder and the rest of the file is processed.
C6_ResolverFailureNeverAborts ==
    ~(pc = "exited" /\ exit = "URLError")

----------------------------------------------------------------------------
(* C7 *)

\* C7: when a new journey has been marked complete, its public transit guess
\* is the first guess in rank order that reaches the threshold and is a
\* transit mode, with that guess's rounded probability; it is absent when the
\* segment has no such guess.
C7_FirstTransitWins ==
    (pc = "count" /\ was_new) =>
        LET row == db.Journeys[journey_id]
            k == FirstTransit(item.activities)
        IN  IF k = 0
            THEN row.pubTransGuess_id = NULL
            ELSE /\ row.pubTransGuess_id # NULL
                 /\ db.ActivityTypes[row.pubTransGuess_id] = item.activities[k].activityType
                 /\ row.P_transGuess = Round2(item.activities[k].probability)

----------------------------------------------------------------------------
(* C8 *)

\* C8: a journey that has just been marked complete holds its segment's
\* top-ranked guess as best activity, with its rounded probability, and that
\* probability is at least the threshold; and once a segment has been
\* processed, a complete journey with its start instant exists if its top
\* guess is at or above the threshold (equality included), and no journey was
\* stored for a new start instant if it is below.
C8_BestActivityIsTopGuess ==
    /\ pc = "count" =>
          LET row == db.Journeys[journey_id]
          IN  /\ row.activityGuess_id # NULL
              /\ db.ActivityTypes[row.activityGuess_id] = item.activities[1].activityType
              /\ row.P_activity = Round2(item.activities[1].probability)
              /\ item.activities[1].probability >= threshold_P
    /\ ( /\ pc = "for_item" /\ item.kind = "activitySegment"
         /\ get_time_ok(item.start) /\ get_time_ok(item.end) ) =>
          IF TopReaches(item)
          THEN \E i \in RowsAt(db.Journeys, get_time(item.start)) :
                  db.Journeys[i].Complete = 1 /\ db.Journeys[i].activityGuess_id # NULL
          ELSE was_new => RowsAt(db.Journeys, get_time(item.start)) = {}

\* a top guess exactly at the threshold was stored as best activity
C8_Witness ==
    /\ pc = "count"
    /\ item.activities[1].probability = threshold_P
    /\ db.Journeys[journey_id].P_activity = threshold_P

----------------------------------------------------------------------------
(* C9 *)

\* a step of fill_sql writes a public transit guess only from a qualified guess
\* of the current segment
TransitWriteStep ==
    pc \in FillPCs =>
      \A j \in 1..Len(db'.Journeys) :
         LET new == db'.Journeys[j]
             changed == \/ j > Len(db.Journeys)
                        \/ db.Journeys[j].pubTransGuess_id # new.pubTransGuess_id
                        \/ db.Journeys[j].P_transGuess # new.P_transGuess
         IN  new.pubTransGuess_id # NULL =>
               /\ db'.ActivityTypes[new.pubTransGuess_id] \in public_transit_modes
               /\ new.P_transGuess >= threshold_P
               /\ changed =>
                    /\ new.StartTime = get_time(item.start)
                    /\ \E k \in 1..Len(item.activities) :
                          /\ item.activities[k].probability >= threshold_P
                          /\ item.activities[k].activityType \in public_transit_modes
                          /\ db'.ActivityTypes[new.pubTransGuess_id]
                                = item.activities[k].activityType
                          /\ new.P_transGuess = Round2(item.activities[k].probability)

\* C9: whenever a statement of fill_sql sets or changes a journey's public
\* transit guess, the current segment starts at that journey's start instant
\* and has a guess at or above the threshold whose type is a transit mode,
\* and the stored type and probability are those of that guess (probability
\* rounded to two decimals); every stored transit guess is a transit mode with
\* a probability of at least the threshold.
C9_TransitGuessOnlyIfQualified == [][ TransitWriteStep ]_vars

\* a journey whose transit guess is not its best activity
C9_Witness ==
    \E j \in 1..Len(db.Journeys) :
        /\ db.Journeys[j].Complete = 1
        /\ db.Journeys[j].pubTransGuess_id # NULL
        /\ db.Journeys[j].pubTransGuess_id # db.Journeys[j].activityGuess_id
        /\ db.Journeys[j].P_transGuess > threshold_P

----------------------------------------------------------------------------
(* C10 *)

\* the journey of the item just processed is stored, place-resolved and complete
StoredComplete(d, it) ==
    \E i \in RowsAt(d.Journeys, get_time(it.start)) :
        /\ d.Journeys[i].Complete = 1
        /\ d.Journeys[i].StartCity_id # NULL
        /\ d.Journeys[i].EndCity_id # NULL

\* C10 as claimed: once a segment whose start instant was not in the store has
\* been processed, a place-resolved complete journey with that start instant
\* is stored, also when its guess list is empty or all below the threshold.
C10_EverySegmentStored ==
    (pc = "for_item" /\ item.kind = "activitySegment" /\ was_new) =>
        StoredComplete(db, item)

\* a step that ends the processing of a segment with a new start instant
SegmentOutcomeStep ==
    (pc' = "for_item" /\ item'.kind = "activitySegment" /\ was_new') =>
        IF TopReaches(item')
        THEN StoredComplete(db', item')
        ELSE /\ db' = db
             /\ exit' = "running"
             /\ RowsAt(db'.Journeys, get_time(item'.start)) = {}

\* C10 as amended: once a segment whose start instant was not in the store has
\* been processed, a place-resolved complete journey with that start instant
\* is stored if the top-ranked guess reaches the threshold; a segment with an
\* empty guess list or with every guess below the threshold is passed over
\* without an error: the store is left as it was and holds no journey for it.
C10_StoredIffTopReaches == [][ SegmentOutcomeStep ]_vars

\* a segment with a sub-threshold guess was passed over
C10_Witness ==
    /\ pc = "for_item" /\ item.kind = "activitySegment" /\ was_new
    /\ Len(item.activities) > 0 /\ ~TopReaches(item)
    /\ RowsAt(db.Journeys, get_time(item.start)) = {}
    /\ exit = "running"


----------------------------------------------------------------------------
(* C11 *)

\* a step after which main prints new_journey_counter: the commit before the
\* two print statements, or Ctrl+C inside fill_sql.  Until then disk is the
\* store the run started from.
CountReportStep ==
    /\ (pc = "commit" \/ (pc \in FillPCs /\ exit' = "KeyboardInterrupt")) =>
          new_journey_counter = total_journey_count(db) - total_journey_count(disk)
    /\ (pc = "first_guess" /\ pc' = "for_item") =>
          new_journey_counter' = new_journey_counter

\* C11: wherever the count is reported (after the files were ingested, or
\* after Ctrl+C inside fill_sql), new_journey_counter is the number of
\* journeys this run marked complete, that is the complete count the
\* connection sees minus the complete count of the store the run started
\* from; a segment skipped as already complete does not change it.
C11_CounterIsCompletedCount == [][ CountReportStep ]_vars


----------------------------------------------------------------------------
(* C19 *)

\* C19: timestamp round trip.  For every instant written in Google's format,
\* get_time gives the SQL string of that instant, 'YYYY-MM-DD hh:mm:ss', and
\* get_time on that string gives a datetime with the same calendar date and
\* the same time of day to the second.
C19_TimestampRoundTrip ==
    (pc = "done" /\ out.kind = "stamp") =>
        /\ out.sql.raised = "none"
        /\ out.sql.value = str(out.instant)
        /\ out.parsed.raised = "none"
        /\ out.parsed.value = out.instant

\* the last second of a leap day, written with milliseconds, came back
C19_Witness ==
    /\ pc = "done" /\ out.kind = "stamp"
    /\ Len(out.timestamp) = 24
    /\ out.instant = datetime(2024, 2, 29, 23, 59, 59)
    /\ out.parsed.value = out.instant

\* ------------------------------------------------------------------------
\* Trip reconstruction

\* read_sql has returned
HasRead == out.kind = "analysis" /\ out.read # NoOut

\* a candidate transit trip: a transit guess, start place = end place, and
\* that place is the home city
IsCandidate(journey) ==
    /\ journey.pubTransGuess_id # NULL
    /\ journey.StartCity_id = journey.EndCity_id
    /\ db.Locations[journey.StartCity_id] = "Vienna, Austria"

Candidates(journeys) == SelectSeq(journeys, IsCandidate)

StartOf(journey) == get_time_text(journey.StartTime).value

Ascending(journeys) ==
    \A i \in 1..(Len(journeys) - 1) :
        TextLess(journeys[i].StartTime, journeys[i + 1].StartTime)

\* the candidates that start a new trip: those more than gap minutes after
\* the candidate just before them
NewTrips(cands, gap) ==
    { i \in 2..Len(cands) :
        RoundMinutes(total_seconds(StartOf(cands[i]), StartOf(cands[i - 1]))) > gap }

\* C12: over the journeys in ascending start-time order the billable trip
\* count is 0 without a candidate and otherwise 1 plus the number of
\* candidates whose gap in rounded minutes from the candidate just before
\* them is strictly greater than the merge gap
C12_TripMerging ==
    HasRead =>
        LET cands == Candidates(out.read.journeys)
        IN  /\ Ascending(out.read.journeys)
            /\ out.read.vienna_pubtrans_count =
                  IF cands = << >> THEN 0
                  ELSE 1 + Cardinality(NewTrips(cands, ticket_time))

\* candidates at T, T+10 and T+45 minutes are one trip
C12_Witness ==
    /\ HasRead
    /\ LET cands == Candidates(out.read.journeys)
       IN  /\ Len(cands) = 3
           /\ StartOf(cands[1]) = MorningStart(0)
           /\ StartOf(cands[2]) = MorningStart(600)
           /\ StartOf(cands[3]) = MorningStart(2700)
    /\ out.read.vienna_pubtrans_count = 1

\* C13: a journey without a transit guess, or whose start place is not its
\* end place, or whose place is not 'Vienna, Austria' never contributes to
\* the billable trip count: the count is the one of the candidates alone
C13_OnlyCandidatesCount ==
    HasRead =>
        /\ out.read.vienna_pubtrans_count =
              CountTrips(db, Candidates(out.read.journeys), 1, None, 0, ticket_time)
        /\ out.read.vienna_pubtrans_count <= Len(Candidates(out.read.journeys))

\* one candidate among a journey that leaves Vienna and one inside Graz
C13_Witness ==
    /\ HasRead
    /\ Len(out.read.journeys) = 3
    /\ Len(Candidates(out.read.journeys)) = 1
    /\ \E i \in 1..3 : /\ out.read.journeys[i].pubTransGuess_id # NULL
                       /\ out.read.journeys[i].StartCity_id = 1
                       /\ out.read.journeys[i].EndCity_id = 2
    /\ \E i \in 1..3 : /\ out.read.journeys[i].pubTransGuess_id # NULL
                       /\ out.read.journeys[i].StartCity_id = 2
                       /\ out.read.journeys[i].EndCity_id = 2
    /\ out.read.vienna_pubtrans_count = 1

\* C14: the analysed period is the inclusive number of calendar days from the
\* date of the earliest to the date of the latest journey start,
\* (latest.date - earliest.date).days + 1
C14_PeriodIsInclusiveDates ==
    HasRead =>
        out.read.period_analyzed =
            toordinal(out.read.very_last_journey)
            - toordinal(out.read.very_first_journey) + 1

TimeOfDay(dt) == dt.hour * 3600 + dt.minute * 60 + dt.second

\* the same count holds when the latest journey starts no earlier in its day
\* than the earliest journey in its own
C14_PeriodOfWholeDays ==
    (HasRead /\ TimeOfDay(out.read.very_last_journey)
                  >= TimeOfDay(out.read.very_first_journey)) =>
        out.read.period_analyzed =
            toordinal(out.read.very_last_journey)
            - toordinal(out.read.very_first_journey) + 1

\* ------------------------------------------------------------------------
\* Activity timeline

\* activities_over_time has returned
HasTimeline == out.kind = "analysis" /\ out.timeline # NoOut

\* the month bucket of an instant
BucketOf(dt) == << month_name_of[dt.month], Pad(dt.year, 4) >>

MonthNumber(bucket) == CHOOSE n \in 1..12 : month_name_of[n] = bucket[1]

\* the days of a bucket's month from the earliest to the latest journey date
DaysWithin(bucket, first, last) ==
    LET y == int(bucket[2])
        mo == MonthNumber(bucket)
    IN  Cardinality({ d \in 1..monthrange(y, mo) :
                        /\ toordinal(first) <= toordinal(datetime(y, mo, d, 0, 0, 0))
                        /\ toordinal(datetime(y, mo, d, 0, 0, 0)) <= toordinal(last) })

\* C15: for the first and the last month touched by the data, Days is the
\* number of days of that month from the earliest to the latest journey date
C15_BoundaryMonthDays ==
    HasTimeline =>
        \A m \in DOMAIN out.timeline.counts :
            m \in { BucketOf(out.read.very_first_journey),
                    BucketOf(out.read.very_last_journey) } =>
                out.timeline.counts[m].Days =
                    DaysWithin(m, out.read.very_first_journey, out.read.very_last_journey)

\* C16: every touched month that is neither the month of the earliest nor the
\* month of the latest journey reports its full calendar length as Days
C16_InnerMonthDays ==
    HasTimeline =>
        \A m \in DOMAIN out.timeline.counts :
            m \notin { BucketOf(out.read.very_first_journey),
                       BucketOf(out.read.very_last_journey) } =>
                out.timeline.counts[m].Days = monthrange(int(m[2]), MonthNumber(m))

\* the journeys of a month bucket counted under a category
JourneysOf(m, c) ==
    { k \in 1..Len(out.read.journeys) :
        /\ BucketOf(StartOf(out.read.journeys[k])) = m
        /\ out.read.journeys[k].activityGuess_id # NULL
        /\ category(db.ActivityTypes[out.read.journeys[k].activityGuess_id]) = c }

\* C17: every month bucket holds an entry for every category of the activity
\* types (transit modes collapsed into 'PUBLIC TRANSIT'): the number of the
\* month's journeys of that category, 0 when there is none
C17_EveryCategoryInEveryMonth ==
    HasTimeline =>
        \A m \in DOMAIN out.timeline.counts :
            \A id \in 1..Len(db.ActivityTypes) :
                LET c == category(db.ActivityTypes[id])
                IN  /\ c \in DOMAIN out.timeline.counts[m].count
                    /\ out.timeline.counts[m].count[c] = Cardinality(JourneysOf(m, c))
                    /\ c \in DOMAIN out.timeline.counts_per_day[m]

\* two months: one with a tram ride and no walk, one with a walk and no ride
C17_Witness ==
    /\ HasTimeline
    /\ \E m, n \in DOMAIN out.timeline.counts :
          /\ out.timeline.counts[m].count["PUBLIC TRANSIT"] = 1
          /\ out.timeline.counts[m].count["WALKING"] = 0
          /\ out.timeline.counts[m].count["IN PASSENGER VEHICLE"] = 0
          /\ out.timeline.counts[n].count["PUBLIC TRANSIT"] = 0
          /\ out.timeline.counts[n].count["WALKING"] = 1

\* ------------------------------------------------------------------------
\* Cost summary

\* calculate_summarize has returned
HasSummary == out.kind = "analysis" /\ out.summary # NoOut

\* 365 times the total of the single rides and of the pro-rated yearly ticket, in cents
SingleTotal365 == 365 * out.prices.single * out.read.vienna_pubtrans_count

YearlyShare365 == out.prices.yearly * out.read.period_analyzed

\* C20: the cost summary names the cheaper ticket type, yearly when its
\* pro-rated cost is lower than the total of the single rides and single-ride
\* when it is higher, and states the absolute difference of the two
C20_SummaryNamesCheaper ==
    HasSummary =>
        /\ YearlyShare365 < SingleTotal365 =>
              out.summary.printed = "yearly ticket would have saved"
        /\ YearlyShare365 > SingleTotal365 =>
              out.summary.printed = "yearly ticket would have cost more"
        /\ out.summary.amount =
              RoundDiv(IF SingleTotal365 > YearlyShare365
                       THEN SingleTotal365 - YearlyShare365
                       ELSE YearlyShare365 - SingleTotal365, 3650)

\* the same when the two costs differ by at least 5 cents
C20_SummaryNamesClearlyCheaper ==
    (HasSummary /\ (SingleTotal365 - YearlyShare365 > 5 * 365
                    \/ YearlyShare365 - SingleTotal365 > 5 * 365)) =>
        /\ YearlyShare365 < SingleTotal365 =>
              out.summary.printed = "yearly ticket would have saved"
        /\ YearlyShare365 > SingleTotal365 =>
              out.summary.printed = "yearly ticket would have cost more"

\* ------------------------------------------------------------------------
\* Place names

\* what the geodata service resolves to a city and a country
ResolvedNames == { "Vienna, Austria" }

\* C18: every place name in the Locations table is a resolved 'City, Country'
\* string or exactly 'Unidentified, Unidentified'
C18_PlaceNames ==
    \A i \in 1..Len(db.Locations) :
        db.Locations[i] \in ResolvedNames \cup { "Unidentified, Unidentified" }

\* the names that are stored: also 'Unidentified' alone for a status other
\* than 'OK', and the placeholder on one side of the comma only
C18_StoredPlaceNames ==
    \A i \in 1..Len(db.Locations) :
        db.Locations[i] \in ResolvedNames
                            \cup { "Unidentified, Unidentified", "Unidentified",
                                   "Unidentified, Austria", "Vienna, Unidentified" }

----------------------------------------------------------------------------
(* C21 *)

\* the journey of the current segment is in the store, marked complete
SeenComplete ==
    /\ item.kind = "activitySegment"
    /\ get_time_ok(item.start) /\ get_time_ok(item.end)
    /\ \E i \in RowsAt(db.Journeys, get_time(item.start)) : db.Journeys[i].Complete = 1

SkipCompleteStep ==
    (pc = "first_guess" /\ SeenComplete /\ exit' # "KeyboardInterrupt") =>
        /\ db' = db
        /\ disk' = disk
        /\ new_journey_counter' = new_journey_counter
        /\ journey_id' = NULL
        /\ pc' = "for_item"

\* C21: when a segment's start instant matches a journey already marked
\* complete, the step that looks it up leaves the Journeys, Locations and
\* ActivityTypes tables and new_journey_counter unchanged and goes on to the
\* next item without a call of get_city
C21_SkipCompleteChangesNothing == [][ SkipCompleteStep ]_vars

\* a segment was skipped because its journey is complete
C21_Witness ==
    /\ pc = "for_item" /\ a = 1 /\ journey_id = NULL
    /\ SeenComplete
    /\ start_sql = get_time(item.start)

----------------------------------------------------------------------------
(* C22 *)

\* every journey of J is in K under the same id and start time, and unchanged
\* if it is complete in J
KeepsJourneys(J, K) ==
    \A i \in 1..Len(J) :
        /\ i <= Len(K)
        /\ K[i].StartTime = J[i].StartTime
        /\ J[i].Complete = 1 => K[i] = J[i]

LifecycleStep ==
    /\ run' = run => KeepsJourneys(db.Journeys, db'.Journeys)
    /\ KeepsJourneys(disk.Journeys, disk'.Journeys)

\* C22: once a journey is marked complete, no step of a later ingestion
\* changes its end time, places, activity guess, transit guess or Complete
\* flag, and no step removes a journey: neither in the connection's view
\* during a run nor in the file
C22_CompleteJourneyIsFinal == [][ LifecycleStep ]_vars

\* a complete journey met again with another top guess, and left as it was
C22_Witness ==
    /\ pc = "for_item" /\ a = 1 /\ journey_id = NULL
    /\ SeenComplete
    /\ \E i \in RowsAt(db.Journeys, get_time(item.start)) :
          /\ db.Journeys[i].Complete = 1
          /\ db.ActivityTypes[db.Journeys[i].activityGuess_id]
                # item.activities[1].activityType

----------------------------------------------------------------------------
(* C23 *)

\* the places and the activity guess with its probability are filled in
Populated(row) ==
    /\ row.StartCity_id # NULL
    /\ row.EndCity_id # NULL
    /\ row.activityGuess_id # NULL
    /\ row.P_activity # NULL

\* C23: in the file and in the connection's view, also after an interrupt at
\* any statement of fill_sql, a journey whose Complete flag is set has its
\* start place, end place and activity guess with probability filled in
C23_CompleteIsPopulated ==
    /\ \A i \in 1..Len(db.Journeys) :
          db.Journeys[i].Complete = 1 => Populated(db.Journeys[i])
    /\ \A i \in 1..Len(disk.Journeys) :
          disk.Journeys[i].Complete = 1 => Populated(disk.Journeys[i])

\* an interrupt left a complete journey and one still under construction in
\* the file
C23_Witness ==
    /\ exit = "KeyboardInterrupt" /\ at \in InFlightPCs
    /\ \E i, j \in 1..Len(disk.Journeys) :
          /\ disk.Journeys[i].Complete = 1 /\ Populated(disk.Journeys[i])
          /\ disk.Journeys[j].Complete = NULL /\ ~Populated(disk.Journeys[j])

----------------------------------------------------------------------------
(* C24 *)

\* at most one row per name
OneRowPerName(T) == \A i \in 1..Len(T), j \in 1..Len(T) : i # j => T[i] # T[j]

\* every reference of a journey points to a row of its table
ReferencesExist(d) ==
    \A i \in 1..Len(d.Journeys) :
        /\ d.Journeys[i].StartCity_id \in {NULL} \cup (1..Len(d.Locations))
        /\ d.Journeys[i].EndCity_id \in {NULL} \cup (1..Len(d.Locations))
        /\ d.Journeys[i].activityGuess_id \in {NULL} \cup (1..Len(d.ActivityTypes))
        /\ d.Journeys[i].pubTransGuess_id \in {NULL} \cup (1..Len(d.ActivityTypes))

\* the rows of T are in U under the same ids
KeepsIds(T, U) == \A i \in 1..Len(T) : i <= Len(U) /\ U[i] = T[i]

\* the id obtained for a name: that of its row, a new row only for a new name
Upserted(T, U, id) ==
    /\ id \in 1..Len(U)
    /\ \/ U = T
       \/ U = Append(T, U[id]) /\ U[id] \notin Range(T)

UpsertStep ==
    /\ OneRowPerName(db'.Locations) /\ OneRowPerName(db'.ActivityTypes)
    /\ OneRowPerName(disk'.Locations) /\ OneRowPerName(disk'.ActivityTypes)
    /\ ReferencesExist(db') /\ ReferencesExist(disk')
    /\ run' = run => /\ KeepsIds(db.Locations, db'.Locations)
                     /\ KeepsIds(db.ActivityTypes, db'.ActivityTypes)
    /\ KeepsIds(disk.Locations, disk'.Locations)
    /\ KeepsIds(disk.ActivityTypes, disk'.ActivityTypes)
    /\ (pc = "start_city" /\ pc' = "end_city") =>
          Upserted(db.Locations, db'.Locations, start_city_id')
    /\ (pc = "end_city" /\ pc' = "upd_places") =>
          Upserted(db.Locations, db'.Locations, end_city_id')
    /\ (pc \in {"ins_activity", "else_ins"} /\ pc' \in {"upd_activity", "else_upd"}) =>
          /\ Upserted(db.ActivityTypes, db'.ActivityTypes, activity_id')
          /\ db'.ActivityTypes[activity_id'] = item.activities[a].activityType

\* C24: the Locations table has at most one row per name and the
\* ActivityTypes table at most one row per activity type, a name or type seen
\* again gets the id of its first insertion (rows keep their ids), and every
\* place or activity reference of a journey points to an existing row
C24_UpsertsAreIdempotent == [][ UpsertStep ]_vars

\* a journey of a later run ends at a place and has an activity type that an
\* earlier journey put into the tables, among other places and types
C24_Witness ==
    /\ pc = "mark" /\ run > 1
    /\ Len(db.Locations) > 1 /\ Len(db.ActivityTypes) > 1
    /\ Len(db.Journeys) > 1
    /\ end_city_id = 1 /\ start_city_id = 2
    /\ activity_id = 1
    /\ db.Journeys[1].EndCity_id = 1
    /\ db.Journeys[1].activityGuess_id = 1

----------------------------------------------------------------------------
(* C25 *)

IsComplete(journey) == journey.Complete = 1

\* the store without the journeys that are not marked complete
CompleteOnly(d) == [d EXCEPT !.Journeys = SelectSeq(d.Journeys, IsComplete)]

\* C25: a journey that is not marked complete affects neither the billable
\* trip count, nor the earliest and latest instants and the analysed period,
\* nor the counts of the activity timeline: they are those of the complete
\* journeys alone
C25_OnlyCompleteJourneysCount ==
    (HasTimeline /\ CompleteOnly(db).Journeys # << >>) =>
        LET r == read_sql(CompleteOnly(db), ticket_time)
        IN  /\ out.read.vienna_pubtrans_count = r.vienna_pubtrans_count
            /\ out.read.very_first_journey = r.very_first_journey
            /\ out.read.very_last_journey = r.very_last_journey
            /\ out.read.period_analyzed = r.period_analyzed
            /\ out.timeline.counts =
                  activities_over_time(CompleteOnly(db), r.journeys, r.very_first_journey,
                                       r.very_last_journey).counts

\* the same for the number of journeys reported after the ingestion
C25_OnlyCompleteJourneysReported ==
    HasRead => total_journey_count(db) = Len(CompleteOnly(db).Journeys)

----------------------------------------------------------------------------
(* C26 *)

\* the lookup of a segment whose start instant is not in the store
NewStart ==
    /\ pc = "first_guess"
    /\ get_time_ok(item.start) /\ get_time_ok(item.end)
    /\ RowsAt(db.Journeys, get_time(item.start)) = {}

\* a row for the segment is inserted and the run goes on
InsertedAndRunning ==
    /\ exit' = "running"
    /\ pc' = "start_city"
    /\ db'.Journeys = Append(db.Journeys,
                             NewJourney(db.Journeys, get_time(item.start),
                                        get_time(item.end)))
    /\ journey_id' = Len(db.Journeys) + 1

NewStartStep ==
    (NewStart /\ exit' # "KeyboardInterrupt") => InsertedAndRunning

\* C26: a segment whose start instant is not in the store always gets a new
\* journey and the run goes on, also when its end instant is the end instant
\* of a journey already stored
C26_StartTimeIsTheOnlyKey == [][ NewStartStep ]_vars

NewStartNewEndStep ==
    (/\ NewStart
     /\ \A i \in 1..Len(db.Journeys) : db.Journeys[i].EndTime # get_time(item.end)
     /\ exit' # "KeyboardInterrupt") => InsertedAndRunning

\* the same for a segment whose end instant is not in the store either
C26_NewStartNewEnd == [][ NewStartNewEndStep ]_vars

----------------------------------------------------------------------------
(* C27 *)

EmptyStoreStep ==
    (pc = "read_sql" /\ db.Journeys = << >> /\ exit' # "KeyboardInterrupt") =>
        exit' = "finished"

\* C27: when the Journeys table is empty after the ingestion, the steps after
\* it complete (with a billable trip count of 0) instead of failing
C27_EmptyStoreIsAnalysed == [][ EmptyStoreStep ]_vars

NonEmptyStoreStep ==
    (pc = "read_sql" /\ db.Journeys # << >> /\ exit' # "KeyboardInterrupt") =>
        exit' = "finished"

\* the same when the table holds a journey
C27_NonEmptyStoreIsAnalysed == [][ NonEmptyStoreStep ]_vars

----------------------------------------------------------------------------
(* C28 *)

\* C28: terminate ends the program without raising an error from every point
\* where it is called, also when no connection has been opened yet
C28_TerminateIsClean == exit # "AttributeError"

TerminateWithConnectionStep ==
    (sql_file # "None" /\ pc' = "exited") => exit' # "AttributeError"

\* the same once sql_define has opened the connection
C28_TerminateWithConnection == [][ TerminateWithConnectionStep ]_vars

----------------------------------------------------------------------------
(* C29 *)

\* redact_data has returned
HasRedacted == out.kind = "redact" /\ out.redacted # NoOut

\* value * 10**(-7) rounded to two decimals, in hundredths
ReducedCoordinate(value) == RoundDiv(value, 100000)

\* after is before with every sensitive key, at any depth, mapped to
\* 'REDACTED', every E7 key to its reduced coordinate, and the rest as it was
RECURSIVE RedactedTree(_, _)
RedactedTree(before, after) ==
    CASE before.tag = "dict" ->
            /\ after.tag = "dict"
            /\ after.keys = before.keys
            /\ Len(after.kids) = Len(before.kids)
            /\ \A i \in 1..Len(before.kids) :
                  IF before.keys[i] \in redaction_list
                  THEN after.kids[i] = JString("REDACTED")
                  ELSE IF ContainsE7(before.keys[i])
                  THEN after.kids[i] = JFloat(ReducedCoordinate(before.kids[i].num))
                  ELSE RedactedTree(before.kids[i], after.kids[i])
      [] before.tag = "list" ->
            /\ after.tag = "list"
            /\ Len(after.kids) = Len(before.kids)
            /\ \A i \in 1..Len(before.kids) : RedactedTree(before.kids[i], after.kids[i])
      [] OTHER -> after = before

\* C29: after redact_data(segment) every sensitive key at any nesting depth
\* of the segment, inside mappings and inside sequences however nested, maps
\* to 'REDACTED', every key containing 'E7' holds the reduced coordinate, and
\* all other keys keep their values
C29_RedactionIsComplete ==
    HasRedacted => RedactedTree(out.activity_segment, out.redacted)

\* a sequence directly inside a sequence, somewhere in the value
RECURSIVE HasListInList(_)
HasListInList(t) ==
    \/ t.tag = "list" /\ \E i \in 1..Len(t.kids) : t.kids[i].tag = "list"
    \/ \E i \in 1..Len(t.kids) : HasListInList(t.kids[i])

\* an E7 key with an integer that is not nine characters long, somewhere
RECURSIVE HasOddCoordinate(_)
HasOddCoordinate(t) ==
    \/ /\ t.tag = "dict"
       /\ \E i \in 1..Len(t.kids) :
             /\ ContainsE7(t.keys[i])
             /\ t.keys[i] \notin redaction_list
             /\ value_len(t.kids[i].num) # 9
    \/ \E i \in 1..Len(t.kids) : HasOddCoordinate(t.kids[i])

\* the same for segments without a sequence directly inside a sequence and
\* with coordinates of nine characters
C29_RedactionOfPlainSegments ==
    (/\ HasRedacted
     /\ ~HasListInList(out.activity_segment)
     /\ ~HasOddCoordinate(out.activity_segment)) =>
        RedactedTree(out.activity_segment, out.redacted)

=============================================================================
